---- MODULE Spec2Model ----
(***************************************************************************)
(* A model of the geohash package (src/geohash.go): the Morton codec, the  *)
(* fastGeoHash value with its memoised representations, the adjacency      *)
(* engine, the proximity precision selector and the range merge.           *)
(*                                                                         *)
(* Machine words keep their width.  A uint32 or uint64 is the set of the   *)
(* positions of its one bits (bit 0 is the least significant), so that     *)
(* &, |, ^, << and >> are set operations and + and - are ripple carries    *)
(* that drop the carry out of the top bit, as Go's unsigned arithmetic     *)
(* does.                                                                   *)
(***************************************************************************)
EXTENDS Integers, Sequences, FiniteSets

VARIABLES f, ret, call, cx, cy, cz, cout, cpc

vars == <<f, ret, call, cx, cy, cz, cout, cpc>>

-----------------------------------------------------------------------------
(* Words. *)

W32 == 0..31

W64 == 0..63

Bit(a, i) == IF i \in a THEN 1 ELSE 0

\* The element of a singleton.  Only({e(v) : v \in {x}}) is e of the value
\* of x, with x evaluated once.
Only(S) == CHOOSE v \in S : TRUE

And(a, b) == a \cap b

Or(a, b) == a \cup b

Not64(a) == W64 \ a

\* a << k on a 64-bit word: bits shifted past bit 63 are lost.
Shl64(a, k) == {i + k : i \in {j \in a : j + k <= 63}}

\* a >> k (logical).
Shr(a, k) == {i - k : i \in {j \in a : j >= k}}

\* uint32(a): the low 32 bits.
Uint32(a) == a \cap W32

\* The carry into bit i of a + b: some lower bit j generates a carry (both
\* have it) and every bit between j and i passes it on (one of them has it).
Carry(a, b, i) ==
  IF \E j \in a \cap b : j < i /\ \A k \in (j + 1)..(i - 1) : k \in a \/ k \in b
  THEN 1 ELSE 0

\* The borrow into bit i of a - b: some lower bit j borrows (b has it, a has
\* not) and no bit between j and i pays it back (a has it, b has not).
Borrow(a, b, i) ==
  IF \E j \in b \ a : j < i /\ \A k \in (j + 1)..(i - 1) : k \notin a \/ k \in b
  THEN 1 ELSE 0

\* a + b in w bits: the carry out of the top bit is lost.
AddBits(x, y, w) ==
  UNION { {i \in 0..(w - 1) : (Bit(a, i) + Bit(b, i) + Carry(a, b, i)) % 2 = 1} :
          a \in {x}, b \in {y} }

\* a - b in w bits: the borrow out of the top bit is lost.
SubBits(x, y, w) ==
  UNION { {i \in 0..(w - 1) : (Bit(a, i) + Bit(b, i) + Borrow(a, b, i)) % 2 = 1} :
          a \in {x}, b \in {y} }

Add32(a, b) == AddBits(a, b, 32)

Sub32(a, b) == SubBits(a, b, 32)

Sub64(a, b) == SubBits(a, b, 64)

\* 1 << n for a shift count n that is a uint: a count computed as 32 - p or
\* 64 - p with p above it wraps to a count far beyond the width, and Go
\* shifts by a count >= the width to 0.
OneShl32(n) == IF n \in 0..31 THEN {n} ELSE {}

OneShl64(n) == IF n \in 0..63 THEN {n} ELSE {}

\* math.MaxUint64 >> n
MaxUint64Shr(n) == IF n \in 0..63 THEN 0..(63 - n) ELSE {}

\* a <= b, unsigned.
Leq(a, b) ==
  LET d == (a \ b) \cup (b \ a)
  IN  d = {} \/ (CHOOSE i \in d : \A j \in d : j <= i) \in b

-----------------------------------------------------------------------------
(* Morton codec. *)

b0 == {i \in W64 : i % 2 < 1}

b1 == {i \in W64 : i % 4 < 2}

b2 == {i \in W64 : i % 8 < 4}

b3 == {i \in W64 : i % 16 < 8}

b4 == {i \in W64 : i % 32 < 16}

b5 == {i \in W64 : i < 32}

\* i = (i | (i << k)) & b
SpreadStep(x, k, b) == UNION {And(Or(i, Shl64(i, k)), b) : i \in {x}}

Spread(x) ==
  SpreadStep(SpreadStep(SpreadStep(SpreadStep(SpreadStep(x, 16, b4), 8, b3), 4, b2), 2, b1),
             1, b0)

\* z = i | j, the shift of j forgotten.
InterleaveNoShift(x, y) == Or(Spread(x), Spread(y))

\* The two coordinates taken for each other.
InterleaveSwapped(x, y) == Or(Spread(y), Shl64(Spread(x), 1))

interleave(x, y) == Or(Spread(x), Shl64(Spread(y), 1))

\* i = (i | (i >> k)) & b
ContractStep(x, k, b) == UNION {And(Or(i, Shr(i, k)), b) : i \in {x}}

Contract(z) ==
  ContractStep(ContractStep(ContractStep(ContractStep(ContractStep(And(z, b0), 1, b1),
                                                      2, b2), 4, b3), 8, b4), 16, b5)

deinterleave(z) == <<Uint32(Contract(z)), Uint32(Contract(Shr(z, 1)))>>

-----------------------------------------------------------------------------
(* Directions. *)

North == 0

NorthEast == 1

East == 2

SouthEast == 3

South == 4

SouthWest == 5

West == 6

NorthWest == 7

-----------------------------------------------------------------------------
(* The fastGeoHash value.                                                  *)
(*                                                                         *)
(* A latitude or longitude in degrees is kept exactly, as the number u of  *)
(* half grid steps above the low end of its axis (a 33-bit word): the      *)
(* latitude is -90 + u*180/2^33 and the longitude -180 + u*360/2^33.       *)
(* Every value calcCoordsFromBits produces has this form, and 0.0, the     *)
(* value of an unset float64 field, is u = 2^32.                           *)

ZeroFloat == {32}

\* The zero value of the struct.
ZeroGeoHash ==
  [hash |-> {}, latBits |-> {}, lonBits |-> {}, lat |-> ZeroFloat, lon |-> ZeroFloat,
   precision |-> 0, coordinatesCalculated |-> FALSE, hashCalculated |-> FALSE,
   bitsCalculated |-> FALSE]

\* A GeoHash interface value: nil, or a pointer to a fastGeoHash.
Nil == [nil |-> TRUE, ptr |-> ZeroGeoHash]

Ref(o) == [nil |-> FALSE, ptr |-> o]

FromCoordinates(latitude, longitude) ==
  [ZeroGeoHash EXCEPT !.lat = latitude, !.lon = longitude,
                      !.coordinatesCalculated = TRUE]

FromHash(hash, precision) ==
  LET mask == Not64(Sub64(OneShl64(64 - precision), {0}))
  IN  [ZeroGeoHash EXCEPT !.hash = And(hash, mask), !.precision = precision,
                          !.hashCalculated = TRUE]

\* (lat + 90)/180 * 2^32 is u/2; the conversion to uint32 drops the fraction.
calcBitsFromCoords(o) ==
  [o EXCEPT !.latBits = Uint32(Shr(o.lat, 1)), !.lonBits = Uint32(Shr(o.lon, 1)),
            !.bitsCalculated = TRUE]

\* (bits + 0.5)/2^32 of the axis is u = 2*bits + 1.
calcCoordsFromBits(o) ==
  [o EXCEPT !.lat = Or(Shl64(o.latBits, 1), {0}), !.lon = Or(Shl64(o.lonBits, 1), {0}),
            !.coordinatesCalculated = TRUE]

\* Each method yields the receiver as the call leaves it (self) and the
\* value returned (val).
Hash(o) ==
  IF ~o.hashCalculated
  THEN Only({ [self |-> o2, val |-> o2.hash] :
              o2 \in { LET o1 == IF ~o.bitsCalculated THEN calcBitsFromCoords(o) ELSE o
                       IN  [o1 EXCEPT !.hash = interleave(o1.latBits, o1.lonBits),
                                      !.hashCalculated = TRUE] } })
  ELSE [self |-> o, val |-> o.hash]

Coordinates(o) ==
  IF ~o.coordinatesCalculated
  THEN LET o1 == IF ~o.bitsCalculated
                 THEN LET d == deinterleave(o.hash)
                      IN  [o EXCEPT !.latBits = d[1], !.lonBits = d[2],
                                    !.bitsCalculated = TRUE]
                 ELSE o
           o2 == calcCoordsFromBits(o1)
       IN  [self |-> o2, val |-> <<o2.lat, o2.lon>>]
  ELSE [self |-> o, val |-> <<o.lat, o.lon>>]

Precision(o) == [self |-> o, val |-> o.precision]

GetInPrecision(o, precision) ==
  Only({ [self |-> h.self, val |-> Ref(FromHash(h.val, precision))] : h \in {Hash(o)} })

-----------------------------------------------------------------------------
(* Adjacency. *)

NorthBearing == {North, NorthEast, NorthWest}

SouthBearing == {South, SouthEast, SouthWest}

EastBearing == {East, NorthEast, SouthEast}

WestBearing == {West, NorthWest, SouthWest}

\* lonPrecision := f.precision / 2
LonPrecisionOf(precision) == precision \div 2

\* latPrecision := lonPrecision, less one when the precision is odd.  It is a
\* uint: the -1 reached from 0 stands for the largest uint, and is only ever
\* used in the shift count 32 - latPrecision.
LatPrecisionOf(precision) ==
  IF precision % 2 # 0 THEN LonPrecisionOf(precision) - 1 ELSE LonPrecisionOf(precision)

\* The receiver with its grid coordinates calculated.
EnsureBits(o) ==
  IF ~o.bitsCalculated
  THEN IF o.hashCalculated
       THEN LET d == deinterleave(o.hash)
            IN  [o EXCEPT !.latBits = d[1], !.lonBits = d[2], !.bitsCalculated = TRUE]
       ELSE calcBitsFromCoords(o)
  ELSE o

\* latBits - uint32((1 << (32 - latPrecision)) - 1) == 0
TouchesNorthPole(latBits, latPrecision) ==
  \E m \in {Sub32(OneShl32(32 - latPrecision), {0})} : Sub32(latBits, m) = {}

\* latBits == 0
TouchesSouthPole(latBits) == latBits = {}

\* The method on a receiver o1 whose grid coordinates are calculated.
GetAdjacentOfBits(o1, dir) ==
  LET lonPrecision == LonPrecisionOf(o1.precision)
      latPrecision == LatPrecisionOf(o1.precision)
      goesOverPole ==
        \/ dir \in NorthBearing /\ TouchesNorthPole(o1.latBits, latPrecision)
        \/ dir \in SouthBearing /\ TouchesSouthPole(o1.latBits)
      latBits ==
        IF dir \in NorthBearing THEN Add32(o1.latBits, OneShl32(32 - latPrecision))
        ELSE IF dir \in SouthBearing THEN Sub32(o1.latBits, OneShl32(32 - latPrecision))
        ELSE o1.latBits
      lonBits ==
        IF dir \in EastBearing THEN Add32(o1.lonBits, OneShl32(32 - lonPrecision))
        ELSE IF dir \in WestBearing THEN Sub32(o1.lonBits, OneShl32(32 - lonPrecision))
        ELSE o1.lonBits
  IN  IF goesOverPole
      THEN [self |-> o1, val |-> Nil]
      ELSE [self |-> o1,
            val |-> Ref([ZeroGeoHash EXCEPT !.latBits = latBits, !.lonBits = lonBits,
                                            !.precision = o1.precision,
                                            !.bitsCalculated = TRUE])]

GetAdjacent(o, dir) == Only({ GetAdjacentOfBits(o1, dir) : o1 \in {EnsureBits(o)} })

NeighborOrder ==
  <<North, NorthEast, East, SouthEast, South, SouthWest, West, NorthWest>>

\* The first call calculates the receiver's grid coordinates; the others
\* find them calculated.
GetNeighbors(o) ==
  Only({ [self |-> o1, val |-> [k \in 1..8 |-> GetAdjacent(o1, NeighborOrder[k]).val]] :
         o1 \in {GetAdjacent(o, North).self} })

-----------------------------------------------------------------------------
(* Proximity search precision.                                             *)
(*                                                                         *)
(* The selector compares spans of degrees and halves them.  A span is a    *)
(* dyadic number m * 2^e (m < 4096), which halving keeps exact, as it is   *)
(* for the float64 values of the code.  The radius is given by the span of *)
(* latitude it needs, radius / LatitudeDegreeLength, and the cosine of the *)
(* latitude by its inverse, so that the span of longitude needed is their  *)
(* product.                                                                *)

Dy(m, e) == [m |-> m, e |-> e]

Pow2(n) == IF n = 0 THEN 1 ELSE 2 ^ n

Min2(a, b) == IF a < b THEN a ELSE b

\* a >= b for spans with mantissas below 4096, b positive.
SpanGeq(a, b) ==
  LET d == a.e - b.e
  IN  IF d >= 0 THEN a.m * Pow2(Min2(d, 12)) >= b.m
      ELSE a.m >= b.m * Pow2(Min2(-d, 12))

Half(a) == Dy(a.m, a.e - 1)

SpanMul(a, b) == Dy(a.m * b.m, a.e + b.e)

\* for i := 0; i < 32; i++ { if required >= degrees/2 { break }; degrees /= 2; precision += 1 }
RECURSIVE HalvingLoop(_, _, _, _)
HalvingLoop(required, degrees, i, precision) ==
  IF i >= 32 THEN precision
  ELSE Only({ IF SpanGeq(required, half) THEN precision
              ELSE HalvingLoop(required, half, i + 1, precision + 1) :
              half \in {Half(degrees)} })

\* The band of 22.5 degrees a latitude lies in, 0 (south pole) to 7: the
\* top three bits of its 33-bit form.
LatBand(latitude) == 4 * Bit(latitude, 32) + 2 * Bit(latitude, 31) + Bit(latitude, 30)

\* Values 1/math.Cos(latitude*math.Pi/180.0) takes within the latitude's band.
Secants(latitude) ==
  LET b == LatBand(latitude)
  IN  IF b \in {3, 4} THEN {Dy(1, 0), Dy(17, -4)}
      ELSE IF b \in {2, 5} THEN {Dy(5, -2)}
      ELSE IF b \in {1, 6} THEN {Dy(3, -1), Dy(1, 1)}
      ELSE {Dy(3, 0), Dy(1, 40)}

getProximitySearchPrecision(secant, radius) ==
  Only({ IF latPrecision < lonPrecision THEN lonPrecision * 2 - 1 ELSE lonPrecision * 2 :
         latPrecision \in {HalvingLoop(radius, Dy(45, 2), 0, 0)},
         lonPrecision \in {HalvingLoop(SpanMul(radius, secant), Dy(45, 3), 0, 0)} })

-----------------------------------------------------------------------------
(* Ranges. *)

Range(min, max) == [Min |-> min, Max |-> max]

\* x + 1 on a uint64: the lowest zero bit is set and the ones below it are
\* cleared; the word of all ones wraps to 0.
Inc64(x) ==
  LET zeros == W64 \ x
  IN  IF zeros = {} THEN {}
      ELSE LET z == CHOOSE i \in zeros : \A j \in zeros : i <= j
           IN  {i \in x : i > z} \cup {z}

\* The range of the cell of hash at bestPrecision.
CellRange(hash, bestPrecision) ==
  LET min == Not64(MaxUint64Shr(bestPrecision))
      max == MaxUint64Shr(bestPrecision)
  IN  Range(And(hash, min), Or(hash, max))

\* ranges[j] = ranges[len(ranges)-1]; ranges = ranges[:len(ranges)-1]
RemoveAt(ranges, j) ==
  SubSeq([ranges EXCEPT ![j] = ranges[Len(ranges)]], 1, Len(ranges) - 1)

\* r.Max+1 == ranges[i].Min
IsBefore(ranges, i, r) == Inc64(r.Max) = ranges[i].Min

\* ranges[i].Max+1 == r.Min
IsAfter(ranges, i, r) == Inc64(ranges[i].Max) = r.Min

Lowest(S) == CHOOSE j \in S : \A k \in S : j <= k

\* The body of the loop over the neighbours, for one range r: the first
\* range that r touches is extended by r, and then by the first range after
\* it that touches r on the other side, which is removed.
MergeRange(ranges, r) ==
  LET touching == {i \in 1..Len(ranges) : IsBefore(ranges, i, r) \/ IsAfter(ranges, i, r)}
  IN  IF touching = {} THEN Append(ranges, r)
      ELSE LET i == Lowest(touching)
           IN  IF IsBefore(ranges, i, r)
               THEN LET rs == [ranges EXCEPT ![i].Min = r.Min]
                        js == {j \in (i + 1)..Len(rs) : IsAfter(rs, j, r)}
                    IN  IF js = {} THEN rs
                        ELSE RemoveAt([rs EXCEPT ![i].Min = rs[Lowest(js)].Min], Lowest(js))
               ELSE LET rs == [ranges EXCEPT ![i].Max = r.Max]
                        js == {j \in (i + 1)..Len(rs) : IsBefore(rs, j, r)}
                    IN  IF js = {} THEN rs
                        ELSE RemoveAt([rs EXCEPT ![i].Max = rs[Lowest(js)].Max], Lowest(js))

\* The loop over the neighbours from the k-th on.  n.Hash() on a nil
\* neighbour is a nil dereference: the call panics and returns nothing.
RECURSIVE MergeNeighbors(_, _, _, _)
MergeNeighbors(neighbors, k, bestPrecision, ranges) ==
  IF k > Len(neighbors) THEN [panic |-> FALSE, val |-> ranges]
  ELSE IF neighbors[k].nil THEN [panic |-> TRUE, val |-> <<>>]
  ELSE Only({ MergeNeighbors(neighbors, k + 1, bestPrecision, merged) :
              merged \in { Only({ MergeRange(ranges, r) :
                                  r \in {CellRange(Hash(neighbors[k].ptr).val,
                                                   bestPrecision)} }) } })

\* secant stands for 1/cos of the receiver's latitude, which the action
\* draws from Secants.
GetHashRangesInside(o, secant, radius) ==
  Only({ Only({ Only({ Only({ [self |-> h.self, panic |-> m.panic, val |-> m.val] :
                              m \in {MergeNeighbors(n.val, 1, bestPrecision,
                                       <<CellRange(Hash(n.self).val, bestPrecision)>>)} }) :
                       n \in {GetNeighbors(h.val.ptr)} }) :
                h \in {GetInPrecision(Coordinates(o).self, bestPrecision)} }) :
         bestPrecision \in {getProximitySearchPrecision(secant, radius)} })

-----------------------------------------------------------------------------
(* Inputs. *)

\* The longest run of one bits in a sample of the codec's inputs.
MaxRun == 2

Run(i, l) == {j \in W32 : i <= j /\ j < i + l}

Samples32 ==
  {{}, W32, {i \in W32 : i % 3 = 0}} \cup {Run(i, l) : i \in W32, l \in 1..MaxRun}

SampleHashes == { {}, W64, {63, 61}, {62, 60, 59}, {i \in W64 : i % 3 = 0} }

\* The low precisions sampled run from 2 to MaxLowPrecision.
MaxLowPrecision == 5

SamplePrecisions == 2..MaxLowPrecision \cup {63, 64}

\* Precisions a caller may pass: the samples, 0, 1 and one above 64.
CallPrecisions == SamplePrecisions \cup {0, 1, 65}

\* Latitudes: -90, -60 (1/6 of the axis), 0, 60 (5/6 of the axis), and the
\* last half step below 90.
SampleLats ==
  { {}, {i \in 0..30 : i % 2 = 0}, {32}, {32, 31} \cup {i \in 0..29 : i % 2 = 1}, 0..32 }

\* Longitudes: -180, 0, and the last half step below 180.
SampleLons == { {}, {32}, 0..32 }

\* Radii, as the degrees of latitude they span: 0, 256, 96, 24, 12 and
\* 3 * 2^-24.
SampleRadii == { Dy(0, 0), Dy(1, 8), Dy(3, 5), Dy(3, 3), Dy(3, 2), Dy(3, -24) }

Directions == {North, NorthEast, East, SouthEast, South, SouthWest, West, NorthWest}

Constructed ==
  {FromCoordinates(la, lo) : la \in SampleLats, lo \in SampleLons}
    \cup {FromHash(h, p) : h \in SampleHashes, p \in SamplePrecisions}

-----------------------------------------------------------------------------
(* The caller: it holds the value it constructed (f), calls its methods,   *)
(* and holds what its last call returned (ret).  The methods of the values *)
(* a call derives are called by GetHashRangesInside.                       *)

\* What a call returned: kind names the field that holds it.
NoRet ==
  [kind |-> "none", hash |-> {}, coordinates |-> <<{}, {}>>, precision |-> 0,
   geohash |-> Nil, neighbors |-> <<>>, ranges |-> <<>>]

\* The last call: the method and its arguments.
NoCall == [op |-> "none", precision |-> 0, dir |-> North, secant |-> Dy(0, 0),
           radius |-> Dy(0, 0)]

Returns(c, self, r) ==
  /\ f' = self
  /\ ret' = r
  /\ call' = c
  /\ UNCHANGED <<cx, cy, cz, cout, cpc>>

CallHash ==
  \E r \in {Hash(f)} :
    Returns([NoCall EXCEPT !.op = "Hash"], r.self,
            [NoRet EXCEPT !.kind = "hash", !.hash = r.val])

CallCoordinates ==
  \E r \in {Coordinates(f)} :
    Returns([NoCall EXCEPT !.op = "Coordinates"], r.self,
            [NoRet EXCEPT !.kind = "coordinates", !.coordinates = r.val])

CallPrecision ==
  \E r \in {Precision(f)} :
    Returns([NoCall EXCEPT !.op = "Precision"], r.self,
            [NoRet EXCEPT !.kind = "precision", !.precision = r.val])

CallGetInPrecision ==
  \E p \in CallPrecisions :
    \E r \in {GetInPrecision(f, p)} :
      Returns([NoCall EXCEPT !.op = "GetInPrecision", !.precision = p], r.self,
              [NoRet EXCEPT !.kind = "geohash", !.geohash = r.val])

CallGetAdjacent ==
  \E dir \in Directions :
    \E r \in {GetAdjacent(f, dir)} :
      Returns([NoCall EXCEPT !.op = "GetAdjacent", !.dir = dir], r.self,
              [NoRet EXCEPT !.kind = "geohash", !.geohash = r.val])

CallGetNeighbors ==
  \E r \in {GetNeighbors(f)} :
    Returns([NoCall EXCEPT !.op = "GetNeighbors"], r.self,
            [NoRet EXCEPT !.kind = "neighbors", !.neighbors = r.val])

\* The call returns its ranges, or panics and returns nothing.
CallGetHashRangesInside ==
  \E radius \in SampleRadii :
    \E secant \in Secants(Coordinates(f).val[1]) :
      \E r \in {GetHashRangesInside(f, secant, radius)} :
        Returns([NoCall EXCEPT !.op = "GetHashRangesInside", !.secant = secant,
                               !.radius = radius],
                r.self,
                IF r.panic THEN [NoRet EXCEPT !.kind = "panic"]
                ELSE [NoRet EXCEPT !.kind = "ranges", !.ranges = r.val])

CodecIdle == cx = {} /\ cy = {} /\ cz = {} /\ cout = <<{}, {}>> /\ cpc = "idle"

Init ==
  /\ f \in Constructed
  /\ ret = NoRet
  /\ call = NoCall
  /\ CodecIdle

Next ==
  \/ CallHash
  \/ CallCoordinates
  \/ CallPrecision
  \/ CallGetInPrecision
  \/ CallGetAdjacent
  \/ CallGetNeighbors
  \/ CallGetHashRangesInside

Spec == Init /\ [][Next]_vars

-----------------------------------------------------------------------------
(* The codec on its own: a pair of grid coordinates is interleaved, and    *)
(* the code deinterleaved.                                                 *)

CodecInterleave ==
  /\ cpc = "start"
  /\ cz' = interleave(cx, cy)
  /\ cpc' = "interleaved"
  /\ UNCHANGED <<cx, cy, cout, f, ret, call>>

CodecDeinterleave ==
  /\ cpc = "interleaved"
  /\ cout' = deinterleave(cz)
  /\ cpc' = "done"
  /\ UNCHANGED <<cx, cy, cz, f, ret, call>>

CodecInit ==
  /\ cx \in Samples32
  /\ cy \in Samples32
  /\ cz = {}
  /\ cout = <<{}, {}>>
  /\ cpc = "start"
  /\ f = ZeroGeoHash
  /\ ret = NoRet
  /\ call = NoCall

CodecNext == CodecInterleave \/ CodecDeinterleave

SpecCodec == CodecInit /\ [][CodecNext]_vars

-----------------------------------------------------------------------------
(* What the properties are stated with: the bits of a code read one by     *)
(* one, and the grid of cells at a precision.                              *)

\* A per-bit interleave: bit i of x to bit 2i, bit i of y to bit 2i+1.
NaiveInterleave(x, y) == {2 * i : i \in x} \cup {2 * i + 1 : i \in y}

NaiveLat(code) == {i \in W32 : 2 * i \in code}

NaiveLon(code) == {i \in W32 : 2 * i + 1 \in code}

\* Of the p leading bits of a code, the floor(p/2) that are latitude bits
\* and the ceil(p/2) that are longitude bits.
LatBitsAt(p) == p \div 2

LonBitsAt(p) == (p + 1) \div 2

\* The index of the row or column of a grid coordinate: its k leading bits.
IndexOf(grid, k) == Shr(grid, 32 - k)

LastIndex(k) == {i \in W32 : i < k}

\* A grid coordinate with only its k leading bits.
Leading(grid, k) == {i \in grid : i >= 32 - k}

\* The precision GetHashRangesInside selected in the last call.
Selected == getProximitySearchPrecision(call.secant, call.radius)

\* The cell of code at precision p is in neither the first nor the last row
\* and in neither the first nor the last column.
Interior(code, p) ==
  /\ IndexOf(NaiveLat(code), LatBitsAt(p)) \notin {{}, LastIndex(LatBitsAt(p))}
  /\ IndexOf(NaiveLon(code), LonBitsAt(p)) \notin {{}, LastIndex(LonBitsAt(p))}

Step(grid, k, d) ==
  IF d = 1 THEN Add32(grid, {32 - k}) ELSE IF d = -1 THEN Sub32(grid, {32 - k}) ELSE grid

\* The range of codes of the cell dr rows and dc columns from the cell of
\* code at precision p.
NeighborRange(code, p, dr, dc) ==
  LET lat == Step(Leading(NaiveLat(code), LatBitsAt(p)), LatBitsAt(p), dr)
      lon == Step(Leading(NaiveLon(code), LonBitsAt(p)), LonBitsAt(p), dc)
      min == {i \in NaiveInterleave(lat, lon) : i >= 64 - p}
  IN  Range(min, min \cup {i \in W64 : i < 64 - p})

Covers(ranges, r) ==
  \E k \in 1..Len(ranges) : Leq(ranges[k].Min, r.Min) /\ Leq(r.Max, ranges[k].Max)

Overlap(a, b) == Leq(a.Min, b.Max) /\ Leq(b.Min, a.Max)

\* a.Max + 1 = b.Min, as numbers.
Abuts(a, b) == a.Max # W64 /\ Inc64(a.Max) = b.Min

-----------------------------------------------------------------------------
(* Properties. *)

\* C1: deinterleave(interleave(x, y)) is (x, y) for every pair of 32-bit
\* grid coordinates.
C1_RoundTrip == cpc = "done" => cout = <<cx, cy>>

C1_Witness == cpc = "done" /\ cx = {i \in W32 : i % 3 = 0} /\ cy = Run(30, 2) /\ cz # {}

\* C2: Hash() is the per-bit interleave of the value's grid coordinates: bit
\* 2i is bit i of latGrid and bit 2i+1 is bit i of lonGrid, so that bit 63 is
\* the top bit of lonGrid and bit 62 the top bit of latGrid.
C2_HashIsPerBitInterleave ==
  call.op = "Hash" =>
    \E o \in {EnsureBits(f)} :
      /\ \A i \in W32 : /\ (2 * i \in ret.hash) <=> (i \in o.latBits)
                        /\ (2 * i + 1 \in ret.hash) <=> (i \in o.lonBits)
      /\ (63 \in ret.hash) <=> (31 \in o.lonBits)
      /\ (62 \in ret.hash) <=> (31 \in o.latBits)

C2_Witness ==
  /\ call.op = "Hash"
  /\ f.coordinatesCalculated /\ f.bitsCalculated /\ f.precision = 0
  /\ f.latBits # f.lonBits /\ f.latBits # {} /\ f.lonBits # {}
  /\ ret.hash = NaiveInterleave(f.latBits, f.lonBits)

\* C3: GetInPrecision(p) returns no value when p is outside 1..64, and for p
\* in 1..64 a value of precision p whose code is the receiver's code with the
\* low 64-p bits cleared.
C3_PrecisionDomainError ==
  call.op = "GetInPrecision" =>
    IF call.precision \in 1..64
    THEN /\ ret.kind = "geohash" /\ ~ret.geohash.nil
         /\ ret.geohash.ptr.precision = call.precision
         /\ ret.geohash.ptr.hash = {i \in f.hash : i >= 64 - call.precision}
    ELSE ret.kind # "geohash"

\* C4: at a precision P in 2..64 a cell in the last row of latitude has no
\* cell to its north, north-east and north-west, a cell in the first row has
\* none to its south, south-east and south-west, and the latitude never
\* wraps from one pole to the other.
C4_PoleBoundary ==
  call.op = "GetAdjacent" /\ f.precision \in 2..64 =>
    \E k \in {LatBitsAt(f.precision)} :
      /\ call.dir \in NorthBearing /\ IndexOf(f.latBits, k) = LastIndex(k) => ret.geohash.nil
      /\ call.dir \in SouthBearing /\ IndexOf(f.latBits, k) = {} => ret.geohash.nil
      /\ call.dir \in NorthBearing /\ ~ret.geohash.nil => Leq(f.latBits, ret.geohash.ptr.latBits)
      /\ call.dir \in SouthBearing /\ ~ret.geohash.nil => Leq(ret.geohash.ptr.latBits, f.latBits)

\* C5: at a precision P in 2..64, even or odd, the cell east of a cell in
\* the last column of longitude is the cell in the first column of the same
\* row, the cell west of a cell in the first column is the cell in the last
\* column of the same row, and east and west always give a cell.
C5_LongitudeWraparound ==
  call.op = "GetAdjacent" /\ f.precision \in 2..64 /\ call.dir \in {East, West} =>
    \E kr \in {LatBitsAt(f.precision)}, kc \in {LonBitsAt(f.precision)} :
      /\ ~ret.geohash.nil
      /\ call.dir = East /\ IndexOf(f.lonBits, kc) = LastIndex(kc) =>
           /\ IndexOf(ret.geohash.ptr.lonBits, kc) = {}
           /\ IndexOf(ret.geohash.ptr.latBits, kr) = IndexOf(f.latBits, kr)
      /\ call.dir = West /\ IndexOf(f.lonBits, kc) = {} =>
           /\ IndexOf(ret.geohash.ptr.lonBits, kc) = LastIndex(kc)
           /\ IndexOf(ret.geohash.ptr.latBits, kr) = IndexOf(f.latBits, kr)

\* C6: for an interior point and every precision selected, even or odd, the
\* ranges GetHashRangesInside returns cover the range of the point's cell and
\* of each of the 8 cells one row and one column around it.
C6_RangeCoverage ==
  call.op = "GetHashRangesInside" /\ ret.kind = "ranges" =>
    \E p \in {Selected} :
      Interior(f.hash, p) =>
        \A dr \in {-1, 0, 1}, dc \in {-1, 0, 1} :
          Covers(ret.ranges, NeighborRange(f.hash, p, dr, dc))

\* C7: for an interior point and every precision selected, no two of the
\* ranges GetHashRangesInside returns overlap, and none ends right before
\* another starts.
C7_DisjointNonAdjacent ==
  call.op = "GetHashRangesInside" /\ ret.kind = "ranges" =>
    \E p \in {Selected} :
      Interior(f.hash, p) =>
        \A i \in 1..Len(ret.ranges), j \in 1..Len(ret.ranges) :
          i # j => ~Overlap(ret.ranges[i], ret.ranges[j]) /\ ~Abuts(ret.ranges[i], ret.ranges[j])

\* C8: GetHashRangesInside returns ranges for every receiver, also when the
\* cell it selects touches a pole and has no cell on that side: it never
\* fails on an absent neighbour.
C8_TotalOnAbsentNeighbors ==
  call.op = "GetHashRangesInside" => ret.kind = "ranges" /\ Len(ret.ranges) >= 1

\* C9: the precision of every value is in 1..64: 64 for a value built from
\* coordinates, p for one built with a p in 1..64, the receiver's for an
\* adjacent value; and the precision GetHashRangesInside selects is in 1..64.
C9_PrecisionInRange ==
  /\ call.op = "Precision" => ret.precision \in 1..64
  /\ call.op = "Precision" /\ f.coordinatesCalculated /\ ~f.hashCalculated => ret.precision = 64
  /\ call.op = "GetInPrecision" /\ call.precision \in 1..64 =>
       Precision(ret.geohash.ptr).val = call.precision
  /\ call.op = "GetAdjacent" /\ ~ret.geohash.nil =>
       Precision(ret.geohash.ptr).val = f.precision /\ f.precision \in 1..64
  /\ call.op = "GetHashRangesInside" => Selected \in 1..64

\* C10: every range GetHashRangesInside returns has Min <= Max, for every
\* receiver and precision selected for which it returns.
C10_RangesWellFormed ==
  call.op = "GetHashRangesInside" /\ ret.kind = "ranges" =>
    \A k \in 1..Len(ret.ranges) : Leq(ret.ranges[k].Min, ret.ranges[k].Max)

====
